---- MODULE Spec2Model ----
(***************************************************************************)
(* Model of esgfpid.rabbit.asynchronous.thread_builder.ConnectionBuilder:  *)
(* the connect / open-channel / ready / close / reconnect chain, the host  *)
(* failover decision, the exchange fallback and the rescue of unconfirmed  *)
(* messages.  Every callback of the reactor is one action.  The            *)
(* collaborators that are not part of thread_builder.py (state machine,    *)
(* node manager, thread/confirmer bookkeeping, shutter) are modelled from  *)
(* the specification text and are marked so in MODEL_MAP.json.             *)
(***************************************************************************)
EXTENDS Integers, Sequences, FiniteSets

(* ------------------------------ bounds -------------------------------- *)

\* number of configured RabbitMQ hosts (N)
NumHosts == 2

\* self.__max_reconnection_tries (R); the deployed value is far larger
MaxReconnectionTries == 1

\* number of messages the publisher submits
MaxMsgs == 2

\* cap on the number of __please_open_connection calls in one behaviour
MaxAttempts == 4

\* cap on the number of __use_different_exchange_and_reopen_channel calls in one behaviour
MaxReopens == 2

(* --------------------------- program constants ------------------------ *)

\* self.__wait_seconds_before_reconnect, read as defaults.RABBIT_RECONNECTION_SECONDS;
\* the value is that of RABBIT_ASYN_RECONNECTION_SECONDS
RABBIT_RECONNECTION_SECONDS == 5

\* self.__fallback_exchange_name
RABBIT_FALLBACK_EXCHANGE_NAME == "FALLBACK"

PRIMARY_EXCHANGE_NAME == "PRIMARY"

\* value of "no reconnect timer is armed"
NoTimer == 0 - 1

\* the delivery number a fresh channel starts with
FirstDeliveryNumber == 1

VARIABLES
    state,              \* statemachine: the lifecycle state
    closedByPublisher,  \* statemachine.get_detail_closed_by_publisher()
    couldNotConnect,    \* statemachine.detail_could_not_connect
    authException,      \* statemachine.detail_authentication_exception
    cursor,             \* node manager: index of the current host
    reconnectCounter,   \* self.__reconnect_counter
    exchange,           \* thread: exchange name used for publishing
    conn,               \* thread._connection: "none","connecting","open","closing","dead"
    closeReason,        \* reply with which a locally closed connection will report
    channel,            \* thread._channel: "none", "open", "closed"
    chanReq,            \* a channel-open request is outstanding
    timer,              \* delay of the armed reconnect timer, or NoTimer
    pending,            \* thread: queue of unpublished messages
    unconfirmed,        \* confirmer: <<delivery tag, message>> in publish order
    deliveryNumber,     \* thread: next delivery number
    publishEvents,      \* publish events waiting on the current ioloop
    nextMsg,            \* next message the publisher will submit
    settled,            \* messages confirmed (ack) or rejected (nack) by the broker
    pc,                 \* "unbuilt", "init", "loop", "stopped", "crashed"
    exc,                \* exception propagating out of the ioloop: "none","auth","pid"
    frames,             \* nested __start_waiting_for_events frames: "try" / "handler"
    attempts,           \* history: number of __please_open_connection calls
    raised,             \* history: number of PIDServerException raised
    allHostsThatWereTried, \* self.__all_hosts_that_were_tried
    tried,              \* history: hosts attempted since the last reset_nodes
    everConnected,      \* history: on_connection_open has fired once
    forceIssued,        \* history: a forced shutdown has been issued
    closeCause,         \* history: why the connection was closed locally
    closeCursor,        \* history: cursor when the connection was closed locally
    chanCount,          \* history: messages handed to the current channel
    unblockCalls,       \* history: number of thread.unblock_events() calls
    reopens,            \* history: number of __use_different_exchange_and_reopen_channel calls
    mark                \* history: nextMsg when the channel last became ready or was lost

vars == <<state, closedByPublisher, couldNotConnect, authException, cursor,
          reconnectCounter, exchange, conn, closeReason, channel, chanReq, timer,
          pending, unconfirmed, deliveryNumber, publishEvents, nextMsg, settled,
          pc, exc, frames, attempts, raised, allHostsThatWereTried, tried,
          everConnected,
          forceIssued, closeCause, closeCursor, chanCount, unblockCalls, reopens,
          mark>>

lifeVars == <<state, closedByPublisher, couldNotConnect, authException>>
nodeVars == <<cursor, reconnectCounter, allHostsThatWereTried>>
connVars == <<conn, closeReason, channel, chanReq, timer>>
msgVars  == <<pending, unconfirmed, deliveryNumber, nextMsg, settled, chanCount, mark>>
histVars == <<attempts, raised, everConnected, forceIssued, closeCause, closeCursor,
             unblockCalls, reopens>>

States == {"INITIALIZING", "WAITING_TO_BE_AVAILABLE", "AVAILABLE",
           "AVAILABLE_BUT_WANTS_TO_STOP", "PERMANENTLY_UNAVAILABLE", "FORCE_FINISHED"}

Hosts == 1..NumHosts

(* ------------------------- node manager ------------------------------- *)

HasMoreUrls(cur) == cur < NumHosts

SetNextHost(cur) == cur + 1

ResetNodes == 1

(* ------------------- thread / confirmer bookkeeping ------------------- *)

\* thread.get_unconfirmed_messages_as_list_copy_during_lifetime()
UnconfirmedMessagesAsList(unconf) == [i \in 1..Len(unconf) |-> unconf[i][2]]

\* thread.send_many_messages(rescued): rescued messages go ahead of the queue
SendManyMessages(pend, msgs) == msgs \o pend

\* thread.reset_delivery_number()
ResetDeliveryNumber == FirstDeliveryNumber

\* thread.reset_unconfirmed_messages_and_delivery_tags()
ResetUnconfirmedMessagesAndDeliveryTags == << >>

\* thread.get_num_unpublished()
GetNumUnpublished(pend) == Len(pend)

(* ------------------------- ConnectionBuilder -------------------------- *)

\* variant: the surplus factor rounds the wrong way, int(num*0.9)
NumPublishEvents_TooFew(num) == IF num > 0 THEN (num * 9) \div 10 ELSE 0

\* for i in xrange(int(num*1.1)): add_event_publish_message()
NumPublishEvents(num) == IF num > 0 THEN (num * 11) \div 10 ELSE 0

PrepareRepublicationOfUnconfirmed(pend, unconf) ==
    LET rescued_messages == UnconfirmedMessagesAsList(unconf)
    IN  IF Len(rescued_messages) > 0
        THEN SendManyMessages(pend, rescued_messages)
        ELSE pend

\* variant: the unconfirmed messages are reset before they are rescued
PrepareChannelReopen_ResetFirst(pend, unconf, dn) ==
    [dn     |-> ResetDeliveryNumber,
     pend   |-> PrepareRepublicationOfUnconfirmed(
                    pend, ResetUnconfirmedMessagesAndDeliveryTags),
     unconf |-> ResetUnconfirmedMessagesAndDeliveryTags]

\* variant: the delivery number is not reset
PrepareChannelReopen_NoNumberReset(pend, unconf, dn) ==
    [dn     |-> dn,
     pend   |-> PrepareRepublicationOfUnconfirmed(pend, unconf),
     unconf |-> ResetUnconfirmedMessagesAndDeliveryTags]

\* variant: the rescued messages are not removed from the unconfirmed ones
PrepareChannelReopen_KeepUnconfirmed(pend, unconf, dn) ==
    [dn     |-> ResetDeliveryNumber,
     pend   |-> PrepareRepublicationOfUnconfirmed(pend, unconf),
     unconf |-> unconf]

PrepareChannelReopen(pend, unconf, dn) ==
    [dn     |-> ResetDeliveryNumber,
     pend   |-> PrepareRepublicationOfUnconfirmed(pend, unconf),
     unconf |-> ResetUnconfirmedMessagesAndDeliveryTags]

\* variant: the reconnect is scheduled without setting the state to waiting
WaitAndTriggerReconnection_KeepState(st, cur, cnt, wait_seconds, reset) ==
    IF st = "FORCE_FINISHED"
    THEN [raise |-> TRUE, st |-> st, cnc |-> FALSE, cur |-> cur, cnt |-> cnt,
          timer |-> NoTimer, reset |-> reset]
    ELSE [raise |-> FALSE, st |-> st, cnc |-> FALSE,
          cur |-> cur, cnt |-> cnt, timer |-> wait_seconds, reset |-> reset]

WaitAndTriggerReconnection(st, cur, cnt, wait_seconds, reset) ==
    IF st = "FORCE_FINISHED"
    THEN [raise |-> TRUE, st |-> st, cnc |-> FALSE, cur |-> cur, cnt |-> cnt,
          timer |-> NoTimer, reset |-> reset]
    ELSE [raise |-> FALSE, st |-> "WAITING_TO_BE_AVAILABLE", cnc |-> FALSE,
          cur |-> cur, cnt |-> cnt, timer |-> wait_seconds, reset |-> reset]

\* variant: the same host is retried at once, set_next_host is not called
OnConnectionError_NoNextHost(st, cur, cnt) ==
    IF st = "FORCE_FINISHED"
    THEN [raise |-> TRUE, st |-> st, cnc |-> FALSE, cur |-> cur, cnt |-> cnt,
          timer |-> NoTimer, reset |-> FALSE]
    ELSE IF HasMoreUrls(cur)
    THEN WaitAndTriggerReconnection(st, cur, cnt, 0, FALSE)
    ELSE IF cnt + 1 <= MaxReconnectionTries
    THEN WaitAndTriggerReconnection(st, ResetNodes, cnt + 1,
                                    RABBIT_RECONNECTION_SECONDS, TRUE)
    ELSE [raise |-> TRUE, st |-> "PERMANENTLY_UNAVAILABLE", cnc |-> TRUE,
          cur |-> cur, cnt |-> cnt + 1, timer |-> NoTimer, reset |-> FALSE]

\* variant: every failure restarts at the first host
OnConnectionError_RestartAtFirst(st, cur, cnt) ==
    IF st = "FORCE_FINISHED"
    THEN [raise |-> TRUE, st |-> st, cnc |-> FALSE, cur |-> cur, cnt |-> cnt,
          timer |-> NoTimer, reset |-> FALSE]
    ELSE IF HasMoreUrls(cur)
    THEN WaitAndTriggerReconnection(st, ResetNodes, cnt, 0, TRUE)
    ELSE IF cnt + 1 <= MaxReconnectionTries
    THEN WaitAndTriggerReconnection(st, ResetNodes, cnt + 1,
                                    RABBIT_RECONNECTION_SECONDS, TRUE)
    ELSE [raise |-> TRUE, st |-> "PERMANENTLY_UNAVAILABLE", cnc |-> TRUE,
          cur |-> cur, cnt |-> cnt + 1, timer |-> NoTimer, reset |-> FALSE]

\* variant: off by one, the last allowed cycle is not made
OnConnectionError_GiveUpEarly(st, cur, cnt) ==
    IF st = "FORCE_FINISHED"
    THEN [raise |-> TRUE, st |-> st, cnc |-> FALSE, cur |-> cur, cnt |-> cnt,
          timer |-> NoTimer, reset |-> FALSE]
    ELSE IF HasMoreUrls(cur)
    THEN WaitAndTriggerReconnection(st, SetNextHost(cur), cnt, 0, FALSE)
    ELSE IF cnt + 1 < MaxReconnectionTries
    THEN WaitAndTriggerReconnection(st, ResetNodes, cnt + 1,
                                    RABBIT_RECONNECTION_SECONDS, TRUE)
    ELSE [raise |-> TRUE, st |-> "PERMANENTLY_UNAVAILABLE", cnc |-> TRUE,
          cur |-> cur, cnt |-> cnt + 1, timer |-> NoTimer, reset |-> FALSE]

OnConnectionError(st, cur, cnt) ==
    IF st = "FORCE_FINISHED"
    THEN [raise |-> TRUE, st |-> st, cnc |-> FALSE, cur |-> cur, cnt |-> cnt,
          timer |-> NoTimer, reset |-> FALSE]
    ELSE IF HasMoreUrls(cur)
    THEN WaitAndTriggerReconnection(st, SetNextHost(cur), cnt, 0, FALSE)
    ELSE IF cnt + 1 <= MaxReconnectionTries
    THEN WaitAndTriggerReconnection(st, ResetNodes, cnt + 1,
                                    RABBIT_RECONNECTION_SECONDS, TRUE)
    ELSE [raise |-> TRUE, st |-> "PERMANENTLY_UNAVAILABLE", cnc |-> TRUE,
          cur |-> cur, cnt |-> cnt + 1, timer |-> NoTimer, reset |-> FALSE]

\* the effect of one call of on_connection_error made from inside the ioloop
ApplyConnectionError(r, excElse) ==
    /\ state' = r.st
    /\ couldNotConnect' = (couldNotConnect \/ r.cnc)
    /\ cursor' = r.cur
    /\ reconnectCounter' = r.cnt
    /\ allHostsThatWereTried' = allHostsThatWereTried
    /\ tried' = IF r.reset THEN {} ELSE tried
    /\ timer' = IF r.raise THEN timer ELSE r.timer
    /\ raised' = IF r.raise THEN raised + 1 ELSE raised
    /\ exc' = IF r.raise THEN "pid" ELSE excElse

\* the names of the defaults module that __init__ reads
ConstructorReads ==
    {"RABBIT_RECONNECTION_MAX_TRIES", "RABBIT_RECONNECTION_SECONDS",
     "RABBIT_FALLBACK_EXCHANGE_NAME"}

\* the names for the asynchronous connection that defaults.py defines
ShippedDefaults ==
    {"RABBIT_ASYN_RECONNECTION_MAX_TRIES", "RABBIT_ASYN_RECONNECTION_SECONDS",
     "RABBIT_FALLBACK_EXCHANGE_NAME"}

\* a defaults module that also defines the two names under which __init__ reads them
ConfiguredDefaults ==
    ShippedDefaults \cup {"RABBIT_RECONNECTION_MAX_TRIES", "RABBIT_RECONNECTION_SECONDS"}

Init ==
    /\ state = "INITIALIZING"
    /\ closedByPublisher = FALSE
    /\ couldNotConnect = FALSE
    /\ authException = FALSE
    /\ cursor = 1
    /\ reconnectCounter = 0
    /\ exchange = PRIMARY_EXCHANGE_NAME
    /\ conn = "none"
    /\ closeReason = [code |-> "none", text |-> "none"]
    /\ channel = "none"
    /\ chanReq = FALSE
    /\ timer = NoTimer
    /\ pending = << >>
    /\ unconfirmed = << >>
    /\ deliveryNumber = FirstDeliveryNumber
    /\ publishEvents = 0
    /\ nextMsg = 1
    /\ settled = {}
    \* __init__ returns only if the defaults module has every name it reads; otherwise
    \* it raises AttributeError and no builder exists
    /\ \E defs \in {ShippedDefaults, ConfiguredDefaults} :
          pc = IF ConstructorReads \subseteq defs THEN "init" ELSE "unbuilt"
    /\ exc = "none"
    /\ frames = << >>
    /\ attempts = 0
    /\ raised = 0
    /\ allHostsThatWereTried = {}
    /\ tried = {}
    /\ everConnected = FALSE
    /\ forceIssued = FALSE
    /\ closeCause = "none"
    /\ closeCursor = 1
    /\ chanCount = 0
    /\ unblockCalls = 0
    /\ reopens = 0
    /\ mark = 1

\* first_connection(), called once from the run method of the thread
FirstConnection ==
    /\ pc = "init"
    /\ pc' = "loop"
    /\ state' = "WAITING_TO_BE_AVAILABLE"
    /\ conn' = "connecting"
    /\ attempts' = attempts + 1
    /\ allHostsThatWereTried' = allHostsThatWereTried \cup {cursor}
    /\ tried' = tried \cup {cursor}
    /\ frames' = <<"try">>
    /\ UNCHANGED <<closedByPublisher, couldNotConnect, authException, cursor,
                   reconnectCounter, exchange, closeReason, channel, chanReq, timer,
                   msgVars, publishEvents, exc, raised, everConnected, forceIssued,
                   closeCause, closeCursor, unblockCalls, reopens>>

\* __please_open_rabbit_channel(), reached from on_connection_open
OnConnectionOpen ==
    /\ pc = "loop" /\ exc = "none"
    /\ conn = "connecting"
    /\ conn' = "open"
    /\ everConnected' = TRUE
    /\ chanReq' = TRUE
    /\ UNCHANGED <<lifeVars, nodeVars, tried, exchange, closeReason, channel, timer, msgVars,
                   publishEvents, pc, exc, frames, attempts, raised, forceIssued,
                   closeCause, closeCursor, unblockCalls, reopens>>

\* __make_ready_for_publishing: the lifecycle state it leaves
MakeReadyState(st) ==
    IF st = "WAITING_TO_BE_AVAILABLE" THEN "AVAILABLE" ELSE st

\* variant: the messages that arrived while waiting are not flushed
MakeReadyEvents_NoFlush(st, pend) == 0

\* variant: nothing is scheduled when a stop was requested in the meantime
MakeReadyEvents_NotWhenStopping(st, pend) ==
    IF st = "WAITING_TO_BE_AVAILABLE"
    THEN NumPublishEvents(GetNumUnpublished(pend))
    ELSE 0

\* __make_ready_for_publishing / __check_for_already_arrived_messages_and_publish_them:
\* the number of publish events it schedules
MakeReadyEvents(st, pend) ==
    IF st \in {"WAITING_TO_BE_AVAILABLE", "AVAILABLE_BUT_WANTS_TO_STOP"}
    THEN NumPublishEvents(GetNumUnpublished(pend))
    ELSE 0

\* __make_ready_for_publishing: shutter.safety_finish is called (force-closed meanwhile)
MakeReadyRecloses(st, byPublisher) ==
    st = "PERMANENTLY_UNAVAILABLE" /\ byPublisher

USER_FORCE_CLOSED == [code |-> "CLOSED_BY_USER", text |-> "FORCE_CLOSED"]
USER_NORMAL_SHUTDOWN == [code |-> "CLOSED_BY_USER", text |-> "NORMAL_SHUTDOWN"]
\* connection.close() without arguments, as on_channel_closed calls it
LIBRARY_CLOSE == [code |-> "200", text |-> "Normal shutdown"]
BROKER_CLOSE == [code |-> "320", text |-> "CONNECTION_FORCED"]
PERMANENT_ERROR == [code |-> "CLOSED_BY_USER", text |-> "PERMANENT_ERROR"]
NO_REPLY == [code |-> "none", text |-> "none"]

OnChannelOpen ==
    /\ pc = "loop" /\ exc = "none"
    /\ conn = "open" /\ chanReq
    /\ channel' = "open"
    /\ chanReq' = FALSE
    /\ chanCount' = 0
    /\ mark' = nextMsg
    /\ reconnectCounter' = 0
    /\ state' = MakeReadyState(state)
    /\ publishEvents' = publishEvents + MakeReadyEvents(state, pending)
    /\ IF MakeReadyRecloses(state, closedByPublisher)
       THEN conn' = "closing" /\ closeReason' = USER_FORCE_CLOSED
       ELSE UNCHANGED <<conn, closeReason>>
    /\ UNCHANGED <<closedByPublisher, couldNotConnect, authException, cursor,
                   allHostsThatWereTried, tried, exchange, timer, pending, unconfirmed,
                   deliveryNumber, nextMsg,
                   settled, pc, exc, frames, histVars>>

\* on_open_error_callback of the connection
OnConnectionErrorCallback ==
    /\ pc = "loop" /\ exc = "none"
    /\ conn = "connecting"
    /\ conn' = "dead"
    /\ ApplyConnectionError(OnConnectionError(state, cursor, reconnectCounter), "none")
    /\ UNCHANGED <<closedByPublisher, authException, exchange, closeReason, channel,
                   chanReq, msgVars, publishEvents, pc, frames, attempts,
                   everConnected, forceIssued, closeCause, closeCursor, unblockCalls,
                   reopens>>

\* pika raises ProbableAuthenticationError out of ioloop.start()
AuthenticationError ==
    /\ pc = "loop" /\ exc = "none"
    /\ conn = "connecting"
    /\ conn' = "dead"
    /\ exc' = "auth"
    /\ UNCHANGED <<lifeVars, nodeVars, tried, exchange, closeReason, channel, chanReq, timer,
                   msgVars, publishEvents, pc, frames, histVars>>

\* __start_waiting_for_events: the except clauses of the innermost frame
HandleException ==
    /\ pc = "loop" /\ exc # "none"
    /\ frames # << >>
    /\ LET top == frames[Len(frames)]
           rest == SubSeq(frames, 1, Len(frames) - 1)
           r == OnConnectionError("WAITING_TO_BE_AVAILABLE", cursor, reconnectCounter)
       IN  IF top = "handler"
           THEN /\ frames' = rest
                /\ UNCHANGED <<lifeVars, nodeVars, tried, timer, raised, exc>>
           ELSE /\ authException' = (authException \/ exc = "auth")
                /\ ApplyConnectionError(r, "none")
                /\ frames' = IF r.raise THEN rest ELSE Append(rest, "handler")
                /\ UNCHANGED closedByPublisher
    /\ UNCHANGED <<exchange, conn, closeReason, channel, chanReq, msgVars,
                   publishEvents, pc, attempts, everConnected, forceIssued,
                   closeCause, closeCursor, unblockCalls, reopens>>

\* the exception leaves the outermost first_connection: the thread's run ends
ExceptionEscapes ==
    /\ pc = "loop" /\ exc # "none"
    /\ frames = << >>
    /\ pc' = "crashed"
    /\ UNCHANGED <<lifeVars, nodeVars, tried, exchange, connVars, msgVars, publishEvents,
                   exc, frames, histVars>>

\* the reconnect timer fires: reconnect()
Reconnect ==
    /\ pc = "loop" /\ exc = "none"
    /\ timer # NoTimer
    /\ attempts < MaxAttempts
    /\ LET p == PrepareChannelReopen(pending, unconfirmed, deliveryNumber)
       IN  /\ pending' = p.pend
           /\ unconfirmed' = p.unconf
           /\ deliveryNumber' = p.dn
    /\ publishEvents' = 0
    /\ timer' = NoTimer
    /\ state' = "WAITING_TO_BE_AVAILABLE"
    /\ conn' = "connecting"
    /\ closeReason' = NO_REPLY
    /\ channel' = IF channel = "open" THEN "closed" ELSE channel
    /\ chanReq' = FALSE
    /\ attempts' = attempts + 1
    /\ allHostsThatWereTried' = allHostsThatWereTried \cup {cursor}
    /\ tried' = tried \cup {cursor}
    /\ frames' = Append(frames, "try")
    /\ closeCause' = IF closeCause = "fallback_missing"
                     THEN "after_fallback_missing" ELSE "none"
    /\ UNCHANGED <<closedByPublisher, couldNotConnect, authException, cursor,
                   reconnectCounter, exchange, nextMsg, settled, chanCount, mark,
                   pc, exc, raised, everConnected, forceIssued, closeCursor, unblockCalls,
                   reopens>>

(* ------------------- channel and connection close --------------------- *)

FALLBACK_NOT_FOUND_TEXT == "NOT_FOUND - no exchange 'FALLBACK'"
PRIMARY_NOT_FOUND_TEXT == "NOT_FOUND - no exchange 'PRIMARY'"

\* the replies with which the broker closes a channel: the exchange published to
\* does not exist, or some other channel error
PRIMARY_MISSING == [code |-> "404", text |-> PRIMARY_NOT_FOUND_TEXT]
FALLBACK_MISSING == [code |-> "404", text |-> FALLBACK_NOT_FOUND_TEXT]
CHANNEL_ERROR == [code |-> "406", text |-> "PRECONDITION_FAILED"]

ChannelCloseReplies ==
    {IF exchange = RABBIT_FALLBACK_EXCHANGE_NAME THEN FALLBACK_MISSING
                                                 ELSE PRIMARY_MISSING,
     CHANNEL_ERROR}

\* the reply is the broker's: on_channel_closed can also be called with a 404 whose text
\* does not name the fallback exchange after the selector was switched
AnyChannelCloseReplies == ChannelCloseReplies \cup {PRIMARY_MISSING}

\* variant: a missing exchange is handled like any other channel error
ChannelClosedBranch_NoFallback(st, reply) ==
    IF st = "PERMANENTLY_UNAVAILABLE" THEN "nothing"
    ELSE IF reply.code = "404" /\ reply.text = FALLBACK_NOT_FOUND_TEXT
    THEN "close_connection_fallback_missing"
    ELSE "close_connection_unexpected"

\* variant: every close that does not name the fallback exchange reopens a channel
ChannelClosedBranch_AlwaysReopen(st, reply) ==
    IF st = "PERMANENTLY_UNAVAILABLE" THEN "nothing"
    ELSE IF reply.code = "404" /\ reply.text = FALLBACK_NOT_FOUND_TEXT
    THEN "close_connection_fallback_missing"
    ELSE "use_different_exchange"

\* on_channel_closed: which branch is taken
ChannelClosedBranch(st, reply) ==
    IF st = "PERMANENTLY_UNAVAILABLE" THEN "nothing"
    ELSE IF reply.code = "404" /\ reply.text = FALLBACK_NOT_FOUND_TEXT
    THEN "close_connection_fallback_missing"
    ELSE IF reply.code = "404" THEN "use_different_exchange"
    ELSE "close_connection_unexpected"

\* self.thread._connection.close(): the connection starts closing
CloseConnection(cause) ==
    /\ conn' = IF conn = "open" THEN "closing" ELSE conn
    /\ closeReason' = IF conn = "open" THEN LIBRARY_CLOSE ELSE closeReason
    /\ closeCause' = cause
    /\ closeCursor' = cursor

\* variant: a second call switches back to the primary exchange
UseDifferentExchangeAndReopenChannel_Toggle ==
    /\ state' = "WAITING_TO_BE_AVAILABLE"
    /\ exchange' = IF exchange = RABBIT_FALLBACK_EXCHANGE_NAME
                   THEN PRIMARY_EXCHANGE_NAME ELSE RABBIT_FALLBACK_EXCHANGE_NAME
    /\ LET p == PrepareChannelReopen(pending, unconfirmed, deliveryNumber)
       IN  /\ pending' = p.pend
           /\ unconfirmed' = p.unconf
           /\ deliveryNumber' = p.dn
    /\ chanReq' = TRUE

\* __use_different_exchange_and_reopen_channel
UseDifferentExchangeAndReopenChannel ==
    /\ state' = "WAITING_TO_BE_AVAILABLE"
    /\ exchange' = RABBIT_FALLBACK_EXCHANGE_NAME
    /\ LET p == PrepareChannelReopen(pending, unconfirmed, deliveryNumber)
       IN  /\ pending' = p.pend
           /\ unconfirmed' = p.unconf
           /\ deliveryNumber' = p.dn
    /\ chanReq' = TRUE

OnChannelClosed(reply) ==
    /\ pc = "loop" /\ exc = "none"
    /\ channel = "open"
    /\ conn \in {"open", "closing"}
    /\ reply \in AnyChannelCloseReplies
    \* the broker answers a publish to a missing exchange with 404: that message
    \* is still unconfirmed
    /\ (reply.code = "404" => unconfirmed # << >>)
    /\ channel' = "closed"
    /\ mark' = nextMsg
    /\   LET branch == ChannelClosedBranch(state, reply)
         IN  \/ /\ branch = "nothing"
                /\ UNCHANGED <<state, exchange, conn, closeReason, chanReq, pending,
                               unconfirmed, deliveryNumber, closeCause, closeCursor,
                               reopens>>
             \/ /\ branch = "close_connection_fallback_missing"
                /\ CloseConnection("fallback_missing")
                /\ UNCHANGED <<state, exchange, chanReq, pending, unconfirmed,
                               deliveryNumber, reopens>>
             \/ /\ branch = "use_different_exchange"
                /\ reopens < MaxReopens
                /\ reopens' = reopens + 1
                /\ UseDifferentExchangeAndReopenChannel
                /\ UNCHANGED <<conn, closeReason, closeCause, closeCursor>>
             \/ /\ branch = "close_connection_unexpected"
                /\ CloseConnection("unexpected")
                /\ UNCHANGED <<state, exchange, chanReq, pending, unconfirmed,
                               deliveryNumber, reopens>>
    /\ UNCHANGED <<closedByPublisher, couldNotConnect, authException, nodeVars, tried, timer,
                   publishEvents, nextMsg, settled, chanCount, pc, exc, frames,
                   attempts, raised, everConnected, forceIssued, unblockCalls>>

WasForcedUserShutdown(reply) ==
    reply.code = "CLOSED_BY_USER" /\ reply.text = "FORCE_CLOSED"

\* variant: the text of the normal shutdown is not recognised
WasGentleUserShutdown_TextMismatch(reply) ==
    reply.code = "CLOSED_BY_USER" /\ reply.text = "SHUTDOWN"

WasGentleUserShutdown(reply) ==
    reply.code = "CLOSED_BY_USER" /\ reply.text = "NORMAL_SHUTDOWN"

WasUserShutdown(reply) ==
    IF WasForcedUserShutdown(reply) THEN TRUE
    ELSE IF WasGentleUserShutdown(reply) THEN TRUE
    ELSE FALSE

\* variant: the marker text is never recognised
WasPermanentError_Never(reply) == FALSE

WasPermanentError(reply) == reply.text = "PERMANENT_ERROR"

\* the replies a connection close can carry: the one given to close() when this side
\* closed it, otherwise what the broker or the transport reports
ConnectionCloseReplies ==
    IF conn = "closing" THEN {closeReason} ELSE {BROKER_CLOSE, PERMANENT_ERROR}

AllConnectionCloseReplies ==
    {USER_FORCE_CLOSED, USER_NORMAL_SHUTDOWN, LIBRARY_CLOSE, BROKER_CLOSE,
     PERMANENT_ERROR}

OnConnectionClosed(reply) ==
    /\ pc = "loop" /\ exc = "none"
    /\ conn \in {"open", "closing"}
    /\ reply \in ConnectionCloseReplies
    /\ conn' = "dead"
    /\ channel' = "none"
    /\ chanReq' = FALSE
    /\ mark' = IF channel = "open" THEN nextMsg ELSE mark
    /\   IF WasUserShutdown(reply)
         THEN \* make_permanently_closed_by_user
              /\ state' = "PERMANENTLY_UNAVAILABLE"
              /\ pc' = "stopped"
              /\ UNCHANGED <<couldNotConnect, nodeVars, tried, timer, raised, exc,
                             unblockCalls>>
         ELSE IF WasPermanentError(reply)
         THEN \* make_permanently_closed_by_error
              /\ state' = "PERMANENTLY_UNAVAILABLE"
              /\ unblockCalls' = unblockCalls + 1
              /\ pc' = "stopped"
              /\ UNCHANGED <<couldNotConnect, nodeVars, tried, timer, raised, exc>>
         ELSE /\ ApplyConnectionError(
                    OnConnectionError(state, cursor, reconnectCounter), "none")
              /\ pc' = pc
              /\ UNCHANGED unblockCalls
    /\ UNCHANGED <<closedByPublisher, authException, exchange, closeReason, pending,
                   unconfirmed, deliveryNumber, nextMsg, settled, chanCount,
                   publishEvents, frames, attempts, everConnected, forceIssued,
                   closeCause, closeCursor, reopens>>

(* ------------------------------ shutter -------------------------------- *)

\* forced shutdown requested by the publisher: the state becomes terminal, the transport
\* is closed, the callers are released, the pending timer is cancelled, and the event
\* loop is discarded unless a connect attempt or a close is still in flight on it. It is
\* not interleaved with an exception that is on its way from the ioloop to its handler
ForceFinish ==
    /\ pc \in {"init", "loop"} /\ exc = "none"
    /\ ~forceIssued
    /\ forceIssued' = TRUE
    /\ unblockCalls' = unblockCalls + 1
    /\ timer' = NoTimer
    /\ pc' = IF conn \in {"none", "dead"} THEN "stopped" ELSE pc
    /\ IF ~everConnected
       THEN /\ state' = "FORCE_FINISHED"
            /\ UNCHANGED <<closedByPublisher, conn, closeReason>>
       ELSE /\ state' = "PERMANENTLY_UNAVAILABLE"
            /\ closedByPublisher' = TRUE
            /\ conn' = IF conn = "open" THEN "closing" ELSE conn
            /\ closeReason' = IF conn = "open" THEN USER_FORCE_CLOSED ELSE closeReason
    /\ UNCHANGED <<couldNotConnect, authException, nodeVars, tried, exchange, channel,
                   chanReq, msgVars, publishEvents, exc, frames, attempts, raised,
                   everConnected, closeCause, closeCursor, reopens>>

\* graceful shutdown requested by the publisher
GracefulStop ==
    /\ pc = "loop"
    /\ state \in {"WAITING_TO_BE_AVAILABLE", "AVAILABLE"}
    /\ state' = "AVAILABLE_BUT_WANTS_TO_STOP"
    /\ UNCHANGED <<closedByPublisher, couldNotConnect, authException, nodeVars, tried,
                   exchange,
                   connVars, msgVars, publishEvents, pc, exc, frames, histVars>>

\* graceful shutdown: everything is published and confirmed, close from this side; the
\* callers blocked on the shutdown are released
GracefulFinish ==
    /\ pc = "loop"
    /\ state = "AVAILABLE_BUT_WANTS_TO_STOP"
    /\ pending = << >> /\ unconfirmed = << >>
    /\ state' = "PERMANENTLY_UNAVAILABLE"
    /\ closedByPublisher' = TRUE
    /\ unblockCalls' = unblockCalls + 1
    /\ conn' = IF conn = "open" THEN "closing" ELSE conn
    /\ closeReason' = IF conn = "open" THEN USER_NORMAL_SHUTDOWN ELSE closeReason
    /\ pc' = IF conn \in {"none", "dead"} THEN "stopped" ELSE pc
    /\ UNCHANGED <<couldNotConnect, authException, nodeVars, tried, exchange, channel,
                   chanReq, timer, msgVars, publishEvents, exc, frames, attempts, raised,
                   everConnected, forceIssued, closeCause, closeCursor, reopens>>

(* ------------------------- publishing messages ------------------------- *)

Usable(st) == st \in {"AVAILABLE", "AVAILABLE_BUT_WANTS_TO_STOP"}

\* thread.send_a_message: the publisher submits the next message
Enqueue ==
    /\ pc = "loop"
    /\ nextMsg <= MaxMsgs
    /\ state \in {"WAITING_TO_BE_AVAILABLE", "AVAILABLE"}
    /\ pending' = Append(pending, nextMsg)
    /\ nextMsg' = nextMsg + 1
    /\ publishEvents' = IF state = "AVAILABLE" THEN publishEvents + 1 ELSE publishEvents
    /\ UNCHANGED <<lifeVars, nodeVars, tried, exchange, connVars, unconfirmed, deliveryNumber,
                   settled, chanCount, mark, pc, exc, frames, histVars>>

\* a publish event fires on the ioloop: the head of the queue goes to the channel
PublishEvent ==
    /\ pc = "loop" /\ exc = "none"
    /\ publishEvents > 0
    /\ publishEvents' = publishEvents - 1
    /\ IF Usable(state) /\ channel = "open" /\ pending # << >>
       THEN /\ unconfirmed' = Append(unconfirmed, <<deliveryNumber, Head(pending)>>)
            /\ deliveryNumber' = deliveryNumber + 1
            /\ pending' = Tail(pending)
            /\ chanCount' = chanCount + 1
       ELSE UNCHANGED <<unconfirmed, deliveryNumber, pending, chanCount>>
    /\ UNCHANGED <<lifeVars, nodeVars, tried, exchange, connVars, nextMsg, settled, mark,
                   pc, exc, frames, histVars>>

RemoveAt(seq, i) == SubSeq(seq, 1, i - 1) \o SubSeq(seq, i + 1, Len(seq))

\* confirmer.on_delivery_confirmation: ack or nack of one delivery tag
DeliveryConfirmation ==
    /\ pc = "loop" /\ exc = "none"
    /\ channel = "open"
    /\ \E i \in 1..Len(unconfirmed) :
         /\ unconfirmed' = RemoveAt(unconfirmed, i)
         /\ settled' = settled \cup {unconfirmed[i][2]}
    /\ UNCHANGED <<lifeVars, nodeVars, tried, exchange, connVars, pending, deliveryNumber,
                   nextMsg, chanCount, mark, publishEvents, pc, exc, frames, histVars>>

Next ==
    \/ FirstConnection
    \/ OnConnectionOpen
    \/ OnChannelOpen
    \/ OnConnectionErrorCallback
    \/ AuthenticationError
    \/ HandleException
    \/ ExceptionEscapes
    \/ Reconnect
    \/ \E reply \in {PRIMARY_MISSING, FALLBACK_MISSING, CHANNEL_ERROR} : OnChannelClosed(reply)
    \/ \E reply \in AllConnectionCloseReplies : OnConnectionClosed(reply)
    \/ ForceFinish
    \/ GracefulStop
    \/ GracefulFinish
    \/ Enqueue
    \/ PublishEvent
    \/ DeliveryConfirmation


Spec == Init /\ [][Next]_vars

(* ------------- the controller without shutdown requests ---------------- *)

\* the broker and the network fail only finitely often: a failure is possible while
\* another attempt can follow it, or when it is the one that exhausts the retries
FaultAllowed ==
    \/ attempts < MaxAttempts
    \/ (~HasMoreUrls(cursor) /\ reconnectCounter >= MaxReconnectionTries)

\* a failure caused by the broker or the network
EnvironmentFault ==
    /\ FaultAllowed
    /\ \/ OnConnectionErrorCallback
       \/ AuthenticationError
       \/ \E reply \in ChannelCloseReplies : OnChannelClosed(reply)
       \/ \E reply \in {BROKER_CLOSE, PERMANENT_ERROR} :
             conn = "open" /\ OnConnectionClosed(reply)

\* the close requested by on_channel_closed is reported by on_connection_closed
CloseCompletes == conn = "closing" /\ OnConnectionClosed(closeReason)

LiveNext ==
    \/ FirstConnection
    \/ OnConnectionOpen
    \/ OnChannelOpen
    \/ HandleException
    \/ ExceptionEscapes
    \/ Reconnect
    \/ EnvironmentFault
    \/ CloseCompletes
    \/ Enqueue
    \/ PublishEvent
    \/ DeliveryConfirmation

\* the thread is started, the reactor runs every callback, timer and event that is due,
\* the transport answers every request and the broker settles what it was handed
Fairness ==
    /\ WF_vars(FirstConnection)
    /\ WF_vars(OnConnectionOpen)
    /\ WF_vars(OnChannelOpen)
    /\ WF_vars(HandleException)
    /\ WF_vars(ExceptionEscapes)
    /\ WF_vars(Reconnect)
    /\ WF_vars(CloseCompletes)
    /\ WF_vars(PublishEvent)
    /\ WF_vars(DeliveryConfirmation)

LiveSpec == Init /\ [][LiveNext]_vars /\ Fairness

(* ============================= the claims ============================== *)

Rescued == UnconfirmedMessagesAsList(unconfirmed)

\* a step that calls __please_open_connection
AttemptStep == attempts' = attempts + 1

\* a step that runs the rescue: reconnect(), or the channel reopen on the same connection
RescueStep ==
    Reconnect \/ (\E reply \in AnyChannelCloseReplies : OnChannelClosed(reply) /\ chanReq')

\* a step of the publish event that hands a message to the channel
HandOverStep == PublishEvent /\ chanCount' = chanCount + 1

\* C1: when every connection attempt fails through on_connection_error, exactly
\* NumHosts * MaxReconnectionTries attempts have been made when the state is
\* PERMANENTLY_UNAVAILABLE with could_not_connect set.
C1_ExactlyNTimesRAttempts ==
    (couldNotConnect /\ ~everConnected /\ ~authException)
        => attempts = NumHosts * MaxReconnectionTries

\* what the code does instead: one more cycle, NumHosts * (MaxReconnectionTries + 1)
C1_CodeMakesOneMoreCycle ==
    (couldNotConnect /\ ~everConnected /\ ~authException)
        => attempts = NumHosts * (MaxReconnectionTries + 1)

\* C2: within a cycle no host is attempted twice (every attempt goes to a host not yet
\* tried since the last reset_nodes); a reconnect armed with delay 0 is the move to the
\* next host of the same cycle, and the fixed delay is armed only together with
\* reset_nodes and a counted cycle.
C2_NoRepeatWithinCycle ==
    [][ /\ (AttemptStep => cursor \notin tried)
        /\ ((timer' # timer /\ timer' # NoTimer) =>
              \/ /\ timer' = 0
                 /\ cursor' = cursor + 1
                 /\ tried' = tried
                 /\ reconnectCounter' = reconnectCounter
              \/ /\ timer' = RABBIT_RECONNECTION_SECONDS
                 /\ cursor' = 1
                 /\ tried' = {}
                 /\ tried = Hosts
                 /\ reconnectCounter' = reconnectCounter + 1) ]_vars

\* every host was tried once, the cycle was reset and the fixed delay armed
C2_Witness ==
    /\ attempts = NumHosts
    /\ timer = RABBIT_RECONNECTION_SECONDS
    /\ cursor = 1 /\ tried = {}
    /\ reconnectCounter = 1

\* C3: when the channel becomes ready, at least one publish event per waiting message is
\* scheduled; while AVAILABLE with an open channel the events never run out before the
\* messages; the queue is in submission order; every hand-over takes the head of the
\* queue and gives it the next number of the channel, starting at 1.
C3_PendingFlushedInOrder ==
    /\ [](\A i, j \in 1..Len(pending) : i < j => pending[i] < pending[j])
    /\ []((state = "AVAILABLE" /\ channel = "open") => publishEvents >= Len(pending))
    /\ [][ /\ ((state = "WAITING_TO_BE_AVAILABLE" /\ state' = "AVAILABLE")
                 => publishEvents' - publishEvents >= Len(pending))
           /\ (HandOverStep =>
                 /\ unconfirmed' = Append(unconfirmed, <<chanCount + 1, Head(pending)>>)
                 /\ pending' = Tail(pending)) ]_vars

\* all messages were waiting when the first channel became ready, and they are in flight
\* with the numbers 1..MaxMsgs in submission order
C3_Witness ==
    /\ state = "AVAILABLE" /\ attempts = 1 /\ exchange = PRIMARY_EXCHANGE_NAME
    /\ mark = MaxMsgs + 1
    /\ chanCount = MaxMsgs
    /\ unconfirmed = [i \in 1..MaxMsgs |-> <<i, i>>]

\* C4: the rescue step leaves the in-flight map empty and puts every in-flight message
\* into the pending queue, in the order they had, keeping what was pending; the in-flight
\* entries always belong to the current channel.
C4_InFlightRescued ==
    /\ [](\A i \in 1..Len(unconfirmed) : unconfirmed[i][1] <= chanCount)
    /\ [][ RescueStep =>
             /\ unconfirmed' = << >>
             /\ Len(pending') = Len(Rescued) + Len(pending)
             /\ \A i \in 1..Len(Rescued) : pending'[i] = Rescued[i]
             /\ \A i \in 1..Len(pending) : pending'[Len(Rescued) + i] = pending[i] ]_vars

\* two messages were in flight on the old channel, neither was settled, and after
\* reconnect() both are pending again in their order
C4_Witness ==
    /\ conn = "connecting" /\ attempts >= 2
    /\ chanCount = 2
    /\ settled = {}
    /\ unconfirmed = << >>
    /\ pending = <<1, 2>>

\* C5: on every open channel the next delivery number is one more than the number of
\* messages handed to that channel, so the numbering of a new channel starts at 1.
C5_NumberingRestarts ==
    channel = "open" => deliveryNumber = chanCount + FirstDeliveryNumber

\* message 2 was unconfirmed with number 2 when the channel was lost, message 1 was
\* confirmed; after the rescue message 2 is the only one waiting and the counter is 1
C5_Witness ==
    /\ channel # "open"
    /\ chanCount = 2
    /\ settled = {1}
    /\ pending = <<2>>
    /\ unconfirmed = << >>
    /\ deliveryNumber = FirstDeliveryNumber

C7_Effects ==
    /\ exchange' = RABBIT_FALLBACK_EXCHANGE_NAME
    /\ state' = "WAITING_TO_BE_AVAILABLE"
    /\ unconfirmed' = << >>
    /\ pending' = Rescued \o pending
    /\ chanReq'
    /\ conn' = conn
    /\ attempts' = attempts
    /\ cursor' = cursor
    /\ reconnectCounter' = reconnectCounter

\* C7 as stated: whenever the channel is closed because the primary exchange does not
\* exist, the exchange becomes the fallback, the state WAITING_TO_BE_AVAILABLE, the
\* in-flight messages are rescued and a channel is requested on the same connection.
C7_FallbackOnSameConnection_Original ==
    [][ OnChannelClosed(PRIMARY_MISSING) => C7_Effects ]_vars

\* C7 amended: the same, when the state is not PERMANENTLY_UNAVAILABLE.
C7_FallbackOnSameConnection ==
    [][ (OnChannelClosed(PRIMARY_MISSING) /\ state # "PERMANENTLY_UNAVAILABLE")
          => C7_Effects ]_vars

\* the first channel was closed for the missing primary exchange with message 1 in
\* flight: fallback selected, channel requested on the open first connection
C7_Witness ==
    /\ exchange = RABBIT_FALLBACK_EXCHANGE_NAME
    /\ state = "WAITING_TO_BE_AVAILABLE"
    /\ conn = "open" /\ chanReq /\ channel = "closed"
    /\ attempts = 1 /\ cursor = 1 /\ reconnectCounter = 0
    /\ chanCount = 1 /\ pending = <<1>> /\ unconfirmed = << >>

\* C8 as stated: the attempt that follows a close for the missing fallback exchange goes
\* to the first configured host.
C8_RestartAtFirstHost_Original ==
    [][ (AttemptStep /\ closeCause = "fallback_missing") => cursor' = 1 ]_vars

\* C8 amended: the close for the missing fallback exchange closes the connection, and
\* the attempt that follows goes to the host after the one the cursor pointed to, or to
\* the first host when the cursor pointed to the last one.
C8_FailoverAfterFallbackMissing ==
    /\ [][ OnChannelClosed(FALLBACK_MISSING) => conn' = "closing" ]_vars
    /\ [][ (AttemptStep /\ closeCause = "fallback_missing") =>
              cursor' = IF closeCursor < NumHosts THEN closeCursor + 1 ELSE 1 ]_vars

\* the connection to the first host was closed for the missing fallback exchange and the
\* attempt that followed went to the second host
C8_Witness ==
    /\ closeCause = "after_fallback_missing"
    /\ closeCursor = 1
    /\ conn = "connecting"
    /\ cursor = 2

\* a call of on_connection_error: the open-error callback, a connection close that is
\* neither user-initiated nor permanent, or the handler of the authentication error
ConnectionErrorStep ==
    \/ OnConnectionErrorCallback
    \/ \E reply \in AllConnectionCloseReplies :
          /\ ~WasUserShutdown(reply) /\ ~WasPermanentError(reply)
          /\ OnConnectionClosed(reply)
    \/ (HandleException /\ exc = "auth" /\ frames[Len(frames)] = "try")

\* C9: once a forced shutdown has been issued and the state is FORCE_FINISHED or
\* PERMANENTLY_UNAVAILABLE, every call of on_connection_error raises the fatal error,
\* arms no timer, does not move the cursor and does not change the state.
C9_ErrorAfterForceIsFatal ==
    [][ (forceIssued /\ state \in {"FORCE_FINISHED", "PERMANENTLY_UNAVAILABLE"}
           /\ ConnectionErrorStep)
          => /\ raised' = raised + 1
             /\ timer' = timer
             /\ cursor' = cursor
             /\ state' = state ]_vars

Count(seq, m) == Cardinality({i \in 1..Len(seq) : seq[i] = m})

C11_EveryMessageSettled_Original ==
    \A m \in 1..MaxMsgs : [](m < nextMsg => <>(m \in settled))

\* C11 amended: the same, unless the controller reaches PERMANENTLY_UNAVAILABLE first
\* (retries exhausted, or a close with the permanent-error marker).
C11_EveryMessageSettled ==
    \A m \in 1..MaxMsgs :
        [](m < nextMsg => <>(m \in settled \/ state = "PERMANENTLY_UNAVAILABLE"))

\* every message is settled on the last connection, after three lost connections and
\* an exchange fallback; both messages were handed over again on the last channel
C11_Witness ==
    /\ settled = 1..MaxMsgs
    /\ attempts = MaxAttempts
    /\ exchange = RABBIT_FALLBACK_EXCHANGE_NAME
    /\ mark = MaxMsgs + 1 /\ chanCount = MaxMsgs
    /\ state = "AVAILABLE"

(* ------------------------- lifecycle, C12 .. C14 ------------------------ *)

Terminal == {"PERMANENTLY_UNAVAILABLE", "FORCE_FINISHED"}

\* a step of the shutdown coordinator (the publisher's request), not of the controller
ShutterStep == ForceFinish \/ GracefulStop \/ GracefulFinish

\* C12: once the state is PERMANENTLY_UNAVAILABLE or FORCE_FINISHED, no callback of the
\* controller that runs on the event loop sets it to another state.
C12_TerminalStatesStay ==
    [][ (pc = "loop" /\ state \in Terminal /\ ~ShutterStep) => state' = state ]_vars

\* the transitions section 4.2 allows
AllowedTransition(s, t) ==
    \/ s = t
    \/ t = "FORCE_FINISHED"
    \/ <<s, t>> \in {<<"INITIALIZING", "WAITING_TO_BE_AVAILABLE">>,
                     <<"WAITING_TO_BE_AVAILABLE", "AVAILABLE">>,
                     <<"AVAILABLE", "WAITING_TO_BE_AVAILABLE">>,
                     <<"AVAILABLE", "AVAILABLE_BUT_WANTS_TO_STOP">>,
                     <<"WAITING_TO_BE_AVAILABLE", "PERMANENTLY_UNAVAILABLE">>,
                     <<"AVAILABLE_BUT_WANTS_TO_STOP", "PERMANENTLY_UNAVAILABLE">>}

\* C13: every change of the state made by a callback of the controller is an allowed
\* transition;
\* AVAILABLE_BUT_WANTS_TO_STOP is followed only by a terminal state, and AVAILABLE is
\* never followed directly by PERMANENTLY_UNAVAILABLE.
C13_OnlyAllowedTransitions ==
    [][ (pc = "loop" /\ ~ShutterStep) =>
          /\ AllowedTransition(state, state')
          /\ (state = "AVAILABLE_BUT_WANTS_TO_STOP" /\ state' # state
                => state' \in Terminal)
          /\ (state = "AVAILABLE" => state' # "PERMANENTLY_UNAVAILABLE") ]_vars

\* C14: after the retries are exhausted (could_not_connect is set) no second fatal error
\* is raised, on_connection_error is not entered again (the cycle counter stays) and the
\* controller does not change the state.
C14_RaisedOnce ==
    [][ couldNotConnect =>
          /\ raised' = raised
          /\ reconnectCounter' = reconnectCounter
          /\ (~ShutterStep => state' = state) ]_vars

(* ----------------------- fatal errors, C15 .. C17 ----------------------- *)

\* C15: a fatal error is raised only when the state is FORCE_FINISHED at a connection
\* error, or when the cycle counter exceeds the maximum (then with the state
\* PERMANENTLY_UNAVAILABLE and could_not_connect); an exception of that kind exists only
\* after such a raise; every other failure or close raises nothing.
C15_RaisedOnlyWhenGivingUp ==
    [][ /\ (raised' # raised =>
              /\ raised' = raised + 1
              /\ exc' = "pid"
              /\ \/ state = "FORCE_FINISHED" /\ state' = state /\ ~couldNotConnect'
                 \/ /\ reconnectCounter' = reconnectCounter + 1
                    /\ reconnectCounter' > MaxReconnectionTries
                    /\ ~HasMoreUrls(cursor)
                    /\ state' = "PERMANENTLY_UNAVAILABLE"
                    /\ couldNotConnect')
        /\ (exc' = "pid" => (raised' # raised \/ exc = "pid")) ]_vars

\* the retries were exhausted after NumHosts * (MaxReconnectionTries + 1) absorbed or
\* failed attempts, and the fatal error has just been raised
C15_Witness ==
    /\ raised = 1 /\ exc = "pid"
    /\ couldNotConnect /\ state = "PERMANENTLY_UNAVAILABLE"
    /\ reconnectCounter = MaxReconnectionTries + 1
    /\ ~forceIssued

UserCloseEffects ==
    /\ state' = "PERMANENTLY_UNAVAILABLE"
    /\ pc' = "stopped"
    /\ timer' = NoTimer
    /\ attempts' = attempts
    /\ raised' = raised

PermanentErrorEffects ==
    /\ state' = "PERMANENTLY_UNAVAILABLE"
    /\ timer' = NoTimer
    /\ attempts' = attempts
    /\ cursor' = cursor
    /\ reconnectCounter' = reconnectCounter

\* C17 as stated: a connection close with the permanent-error marker makes the state
\* PERMANENTLY_UNAVAILABLE, schedules no reconnect, leaves cursor and counter, and a
\* fatal error is raised.
C17_PermanentErrorRaises_Original ==
    [][ OnConnectionClosed(PERMANENT_ERROR) =>
          (PermanentErrorEffects /\ raised' = raised + 1) ]_vars

\* C17 amended: the same, but no fatal error is raised: the event loop is stopped and
\* unblock_events is called once.
C17_PermanentErrorIsFinal ==
    [][ OnConnectionClosed(PERMANENT_ERROR) =>
          /\ PermanentErrorEffects
          /\ raised' = raised /\ exc' = "none"
          /\ pc' = "stopped"
          /\ unblockCalls' = unblockCalls + 1 ]_vars

\* an open connection with a message in flight was closed with the marker text
C17_Witness ==
    /\ unblockCalls = 1 /\ pc = "stopped" /\ conn = "dead"
    /\ state = "PERMANENTLY_UNAVAILABLE" /\ ~closedByPublisher
    /\ raised = 0 /\ timer = NoTimer
    /\ unconfirmed # << >>

(* ------------------- close and failure paths, C18 .. C20 ---------------- *)

\* the failover decision of a failed connection attempt, outcome by outcome
FailoverDecision ==
    IF state = "FORCE_FINISHED"
    THEN /\ raised' = raised + 1
         /\ state' = state /\ timer' = timer
         /\ cursor' = cursor /\ reconnectCounter' = reconnectCounter
    ELSE IF cursor < NumHosts
    THEN /\ cursor' = cursor + 1 /\ timer' = 0
         /\ reconnectCounter' = reconnectCounter
         /\ state' = "WAITING_TO_BE_AVAILABLE"
         /\ raised' = raised
    ELSE IF reconnectCounter + 1 <= MaxReconnectionTries
    THEN /\ cursor' = 1 /\ timer' = RABBIT_RECONNECTION_SECONDS
         /\ reconnectCounter' = reconnectCounter + 1
         /\ state' = "WAITING_TO_BE_AVAILABLE"
         /\ raised' = raised
    ELSE /\ state' = "PERMANENTLY_UNAVAILABLE" /\ couldNotConnect'
         /\ reconnectCounter' = reconnectCounter + 1
         /\ cursor' = cursor /\ timer' = timer
         /\ raised' = raised + 1

\* C18: a connection close that is neither user-initiated nor the permanent-error
\* marker clears the channel handle and takes the failover decision of a failed
\* connection attempt, as the open-error callback does; when the state was AVAILABLE and
\* a reconnect is scheduled the state is WAITING_TO_BE_AVAILABLE.
C18_CloseHandledAsFailure ==
    [][ /\ \A reply \in {LIBRARY_CLOSE, BROKER_CLOSE} :
              OnConnectionClosed(reply) =>
                  /\ channel' = "none"
                  /\ FailoverDecision
                  /\ ((state = "AVAILABLE" /\ timer' # NoTimer)
                        => state' = "WAITING_TO_BE_AVAILABLE")
        /\ (OnConnectionErrorCallback => FailoverDecision) ]_vars

\* the broker closed the first connection while AVAILABLE with a message in flight: the
\* channel handle is cleared, the cursor is at the second host, the timer has delay 0
C18_Witness ==
    /\ everConnected /\ attempts = 1 /\ conn = "dead"
    /\ channel = "none" /\ chanCount = 1 /\ unconfirmed # << >>
    /\ state = "WAITING_TO_BE_AVAILABLE"
    /\ cursor = 2 /\ timer = 0 /\ raised = 0
    /\ closeCause = "none"

\* C19: the handler of the authentication error has the outcome on_connection_error has
\* in the same state, and sets the authentication flag.
C19_AuthFailureLikeConnectionError ==
    [][ (HandleException /\ exc = "auth" /\ frames[Len(frames)] = "try")
          => (FailoverDecision /\ authException') ]_vars

\* C20: once a force-finish has been issued (before any connection was established)
\* no connection attempt is started any more.
C20_NoAttemptAfterForceFinish ==
    [][ (forceIssued /\ ~everConnected) => attempts' = attempts ]_vars

(* ------------------ shutdown during setup, C21 .. C22 ------------------- *)

\* C21: when a forced shutdown was issued while the connect attempt was in flight,
\* on_connection_open finds the terminal state and requests no channel.
C21_NoChannelAfterForceFinish ==
    [][ (forceIssued /\ state \in Terminal /\ OnConnectionOpen) => ~chanReq' ]_vars

\* C22: when the channel setup finishes in state AVAILABLE_BUT_WANTS_TO_STOP, at least
\* one publish event per queued message is scheduled and the state stays as it is.
C22_QueuedFlushedWhenStopping ==
    [][ (OnChannelOpen /\ state = "AVAILABLE_BUT_WANTS_TO_STOP") =>
          /\ state' = "AVAILABLE_BUT_WANTS_TO_STOP"
          /\ publishEvents' - publishEvents >= Len(pending)
          /\ pending' = pending ]_vars

\* the stop was requested while the first connection was being built, with all messages
\* queued: the channel is open, nothing is handed over yet, the events are scheduled
C22_Witness ==
    /\ state = "AVAILABLE_BUT_WANTS_TO_STOP"
    /\ channel = "open" /\ attempts = 1 /\ chanCount = 0
    /\ Len(pending) = MaxMsgs
    /\ publishEvents = MaxMsgs

(* ---------------------- exchange fallback, C23 .. C25 -------------------- *)

\* C23: once the exchange selector is the fallback name, no channel close makes the
\* controller request another channel on the same connection; a close with code 404
\* closes the connection (unless the state is PERMANENTLY_UNAVAILABLE, where it is
\* ignored).
C23_LocalRecoveryAtMostOnce ==
    [][ \A reply \in {PRIMARY_MISSING, FALLBACK_MISSING, CHANNEL_ERROR} :
          (exchange = RABBIT_FALLBACK_EXCHANGE_NAME /\ OnChannelClosed(reply)) =>
              /\ ~chanReq'
              /\ (state # "PERMANENTLY_UNAVAILABLE" => conn' = "closing") ]_vars

\* C24: once the exchange selector is the fallback name it stays the fallback name
\* through every step of the controller: reconnects, host failovers, channel reopens.
C24_FallbackSelectorSticks ==
    [][ exchange = RABBIT_FALLBACK_EXCHANGE_NAME =>
            exchange' = RABBIT_FALLBACK_EXCHANGE_NAME ]_vars

\* fallback in use on the second host after reconnects and two channel reopens
C24_Witness ==
    /\ exchange = RABBIT_FALLBACK_EXCHANGE_NAME
    /\ reopens = MaxReopens
    /\ attempts >= 3 /\ cursor = 2
    /\ channel = "open" /\ state = "AVAILABLE"

\* C25: a channel close with a reason other than a missing exchange, in a state other
\* than PERMANENTLY_UNAVAILABLE, closes the connection and requests no channel; a
\* channel close in PERMANENTLY_UNAVAILABLE changes neither the connection nor the
\* channel request nor the state.
C25_OtherCloseEscalates ==
    [][ \A reply \in {PRIMARY_MISSING, FALLBACK_MISSING, CHANNEL_ERROR} :
          OnChannelClosed(reply) =>
              IF state = "PERMANENTLY_UNAVAILABLE"
              THEN conn' = conn /\ chanReq' = chanReq /\ state' = state
              ELSE reply = CHANNEL_ERROR =>
                       /\ conn' = "closing"
                       /\ closeReason' = LIBRARY_CLOSE
                       /\ ~chanReq' ]_vars

\* an unexpected channel close has just closed the connection
C25_Witness ==
    /\ closeCause = "unexpected"
    /\ conn = "closing" /\ closeReason = LIBRARY_CLOSE
    /\ channel = "closed" /\ ~chanReq
    /\ state = "AVAILABLE" /\ unconfirmed # << >>

(* ---------------------------- invariants, C26 .. C27 --------------------- *)

\* C26: the cycle-retry counter counts consecutive failed cycles only: in every
\* reachable state it is at most the configured maximum plus one.
C26_CounterAtMostMaxPlusOne ==
    reconnectCounter <= MaxReconnectionTries + 1

\* C27: whenever the state is AVAILABLE the thread holds an open channel.
C27_AvailableHasOpenChannel ==
    (pc = "loop" /\ state = "AVAILABLE") => channel = "open"
====
